---- MODULE Spec2Model ----
(***************************************************************************)
(* Model of AtlasUtilities:                                                *)
(*   src/GenerateRectAtlasMesh.h   TriangleInBB, AtlasMeshRect             *)
(*   src/utils/AtlasFromNetcdf.cpp LoadField, Load2DField, NodesFromNetCDF,*)
(*                                 CellsFromNetCDF, AddNeighborList,       *)
(*                                 AllocNbhTable, AtlasMeshFromNetCDF*     *)
(*                                                                         *)
(* Coordinates.  The C++ code computes in IEEE doubles with sqrt(3).  The  *)
(* model computes in the exact field Q(sqrt 3): a number is a record       *)
(* [a, b, d] standing for (a + b*sqrt(3)) / d with d > 0 and               *)
(* gcd(a, b, d) = 1.  Rounding is not modelled, so "equal" below means     *)
(* equal as real numbers.  +-std::numeric_limits<double>::max() is the     *)
(* pair of records with d = 0, which only ever take part in comparisons.   *)
(***************************************************************************)
EXTENDS Integers, Sequences, FiniteSets, TLC

VARIABLES
  \* ---- AtlasMeshRect (src/GenerateRectAtlasMesh.h) ----
  pc,        \* position inside AtlasMeshRect
  ny,        \* the argument
  mesh,      \* `mesh`: [n, xy, nc, cells]
  nodeIdx,   \* loop counter of the node loops
  cellIdx,   \* loop counter of the selection loop / TriangleInBB argument
  keep,      \* `keep`: sequence of retained cell indices
  bblo,      \* `lo`
  bbhi,      \* `hi`
  inside,    \* last value returned by TriangleInBB ("none" before any call)
  rectMesh,  \* `rectMesh`
  box,       \* [xMin, yMin, xMax, yMax]
  lX, lY,    \* `lX`, `lY`
  scale,     \* `scale`
  runs,      \* how many times the normalizer (lines 108-138) has completed
  prevXY,    \* node coordinates at the end of the previous normalizer run
  \* ---- NetCDF import (src/utils/AtlasFromNetcdf.cpp) ----
  ipc,       \* position inside the importer
  nbh,       \* the AllocNbhTable / AddNeighborList call made last
  build,     \* "debug" (assert compiled in) or "ndebug" (NDEBUG defined)
  file,      \* the variables of the NetCDF file asked for so far
  imesh,     \* the atlas::Mesh under construction
  minimal,   \* outcome of AtlasMeshFromNetCDFMinimal (called at line 197)
  result,    \* outcome of AtlasMeshFromNetCDFComplete
  oob        \* TRUE once connectivity.set wrote a row outside its table

rectVars == <<pc, ny, mesh, nodeIdx, cellIdx, keep, bblo, bbhi, inside,
              rectMesh, box, lX, lY, scale, runs, prevXY>>
impVars  == <<ipc, nbh, build, file, imesh, minimal, result, oob>>
vars     == <<rectVars, impVars>>

(***************************************************************************)
(* Bounds of the model.                                                    *)
(***************************************************************************)
MaxNy == 4        \* AtlasMeshRect is run for ny in 2..MaxNy
MaxProbeNy == 3   \* TriangleInBB is applied to sheared meshes of ny <= this
MaxNormNodes == 3 \* the normalizer is applied to node sets of <= this size

(***************************************************************************)
(* Arithmetic in Q(sqrt 3).                                                *)
(***************************************************************************)
Abs(n) == IF n < 0 THEN -n ELSE n

RECURSIVE GCD(_, _)
GCD(m, n) == IF n = 0 THEN m ELSE GCD(n, m % n)

Norm(a, b, d) ==
  LET s == IF d < 0 THEN -1 ELSE 1
      g == GCD(GCD(Abs(a), Abs(b)), Abs(d))
  IN  [a |-> (s * a) \div g, b |-> (s * b) \div g, d |-> (s * d) \div g]

Rat(n, d) == Norm(n, 0, d)
Num(n) == [a |-> n, b |-> 0, d |-> 1]
\* sqrt(3)
Sqrt3 == [a |-> 0, b |-> 1, d |-> 1]
\* std::numeric_limits<double>::max() and its negation
DblMax == [a |-> 1, b |-> 0, d |-> 0]
NegDblMax == [a |-> -1, b |-> 0, d |-> 0]

Add(p, q) == Norm(p.a * q.d + q.a * p.d, p.b * q.d + q.b * p.d, p.d * q.d)
Neg(p) == [a |-> -p.a, b |-> -p.b, d |-> p.d]
Sub(p, q) == Add(p, Neg(q))
Mul(p, q) == Norm(p.a * q.a + 3 * p.b * q.b, p.a * q.b + p.b * q.a, p.d * q.d)
\* 1/q for q # 0: (a - b*sqrt 3) * d / (a^2 - 3 b^2)
Inv(q) == Norm(q.d * q.a, -(q.d * q.b), q.a * q.a - 3 * q.b * q.b)
Div(p, q) == Mul(p, Inv(q))

\* sign of (a + b*sqrt 3)/d, d > 0
Sign(p) ==
  IF p.a >= 0 /\ p.b >= 0 THEN (IF p.a = 0 /\ p.b = 0 THEN 0 ELSE 1)
  ELSE IF p.a <= 0 /\ p.b <= 0 THEN -1
  ELSE IF p.a > 0 THEN (IF p.a * p.a > 3 * p.b * p.b THEN 1 ELSE -1)
  ELSE (IF 3 * p.b * p.b > p.a * p.a THEN 1 ELSE -1)

\* p < q on doubles, +-DBL_MAX included
Less(p, q) ==
  IF p.d = 0 /\ q.d = 0 THEN p.a < q.a
  ELSE IF p.d = 0 THEN p.a < 0
  ELSE IF q.d = 0 THEN q.a > 0
  ELSE Sign(Sub(q, p)) = 1

\* fmin / fmax of <math.h>
Fmin(p, q) == IF Less(q, p) THEN q ELSE p
Fmax(p, q) == IF Less(p, q) THEN q ELSE p

(***************************************************************************)
(* Meshes.  A mesh is [n, xy, nc, cells]: n nodes with coordinates         *)
(* xy[0..n-1] = [x, y], and nc triangles cells[0..nc-1] = <<n0, n1, n2>>   *)
(* of 0-based node indices.                                                *)
(***************************************************************************)
EmptyMesh == [n |-> 0, xy |-> [k \in 0..(-1) |-> 0],
              nc |-> 0, cells |-> [c \in 0..(-1) |-> 0]]

\* atlas::StructuredGrid{LinearSpacing(0,nx,nx,false), LinearSpacing(0,ny,ny,false)}
\* triangulated by atlas::StructuredMeshGenerator (external library; from
\* spec section 4.4 step 1 and the comment at lines 70-71): nx*ny lattice
\* nodes (i, j), unit spacing, every lattice cell split into an up and a down
\* triangle along the diagonal (i,j)-(i+1,j+1).
StructuredMesh(nx, nyy) ==
  [n  |-> nx * nyy,
   xy |-> [k \in 0..(nx * nyy - 1) |-> [x |-> Num(k % nx), y |-> Num(k \div nx)]],
   nc |-> 2 * (nx - 1) * (nyy - 1),
   cells |-> [c \in 0..(2 * (nx - 1) * (nyy - 1) - 1) |->
                LET q == c \div 2
                    A == (q \div (nx - 1)) * nx + (q % (nx - 1))
                IN  IF c % 2 = 0 THEN <<A, A + 1, A + nx + 1>>
                                 ELSE <<A, A + nx + 1, A + nx>>]]

\* a plausible slip: the shear leans the other way (x + 0.5*y)
ShearNodeWrongSign(p) ==
  [x |-> Add(p.x, Mul(Rat(1, 2), p.y)), y |-> Div(Mul(p.y, Sqrt3), Num(2))]

\* lines 87-92: x = x - 0.5*y; y = y*sqrt(3)/2
ShearNode(p) ==
  [x |-> Sub(p.x, Mul(Rat(1, 2), p.y)), y |-> Div(Mul(p.y, Sqrt3), Num(2))]

\* a plausible slip: a non-strict comparison on the low x edge
InBBLowInclusive(p, lo, hi) ==
  ~Less(p.x, lo.x) /\ Less(lo.y, p.y) /\ Less(p.x, hi.x) /\ Less(p.y, hi.y)

\* lines 52-55: the lambda inBB
InBB(p, lo, hi) ==
  Less(lo.x, p.x) /\ Less(lo.y, p.y) /\ Less(p.x, hi.x) /\ Less(p.y, hi.y)

\* lines 36-58
TriangleInBB(m, c, lo, hi) ==
  LET node0 == m.cells[c][1]
      node1 == m.cells[c][2]
      node2 == m.cells[c][3]
  IN  InBB(m.xy[node0], lo, hi) \/ InBB(m.xy[node1], lo, hi)
        \/ InBB(m.xy[node2], lo, hi)

\* lines 95-96
NewHeight(nyy) == Div(Mul(Num(nyy - 1), Sqrt3), Num(2))
Length(nyy) == Mul(NewHeight(nyy), Num(2))
\* line 99
SelLo == [x |-> Num(0), y |-> NegDblMax]
\* line 100: {length + length / (nx)*0.1, DBL_MAX}
SelHi(nyy) ==
  [x |-> Add(Length(nyy), Mul(Div(Length(nyy), Num(3 * nyy)), Rat(1, 10))),
   y |-> DblMax]

\* AtlasExtractSubMeshMinimal (AtlasExtractSubmesh.h, not under src/; from
\* spec section 6): the listed cells in the given order, renumbered 0..k-1,
\* and exactly the nodes they reference, renumbered 0..m-1 (here in ascending
\* order of their old index) with the connectivity rewritten.
AtlasExtractSubMeshMinimal(m, keepSeq) ==
  LET used == {m.cells[keepSeq[i]][k] : i \in 1..Len(keepSeq), k \in 1..3}
      rank(v) == Cardinality({u \in used : u < v})
      old(r) == CHOOSE v \in used : rank(v) = r
  IN  [n  |-> Cardinality(used),
       xy |-> [r \in 0..(Cardinality(used) - 1) |-> m.xy[old(r)]],
       nc |-> Len(keepSeq),
       cells |-> [c \in 0..(Len(keepSeq) - 1) |->
                    [k \in 1..3 |-> rank(m.cells[keepSeq[c + 1]][k])]]]

\* lines 109-112
InitBox == [xMin |-> DblMax, yMin |-> DblMax, xMax |-> NegDblMax, yMax |-> NegDblMax]
\* lines 114-119
FoldBox(b, p) ==
  [xMin |-> Fmin(p.x, b.xMin), yMin |-> Fmin(p.y, b.yMin),
   xMax |-> Fmax(p.x, b.xMax), yMax |-> Fmax(p.y, b.yMax)]

\* a plausible slip: subtracting the full extent instead of half of it
RecenterNodeFullExtent(p, b, lx, ly) ==
  [x |-> Sub(Sub(p.x, b.xMin), lx), y |-> Sub(Sub(p.y, b.yMin), ly)]

\* lines 125-128
RecenterNode(p, b, lx, ly) ==
  [x |-> Sub(Sub(p.x, b.xMin), Div(lx, Num(2))),
   y |-> Sub(Sub(p.y, b.yMin), Div(ly, Num(2)))]

\* a plausible slip: the scale taken from the x extent
ScaleFactorFromX(lx, ly) == Div(Num(180), lx)

\* a plausible slip: the ratio inverted
ScaleFactorInverted(lx, ly) == Div(ly, Num(180))

\* line 132
ScaleFactor(lx, ly) == Div(Num(180), ly)

\* lines 134-137
ScaleNode(p, s) == [x |-> Mul(p.x, s), y |-> Mul(p.y, s)]

(***************************************************************************)
(* AtlasMeshRect(ny), lines 61-141, one action per statement group and one *)
(* per loop iteration.                                                     *)
(***************************************************************************)
SetXY(m, k, p) == [m EXCEPT !.xy[k] = p]

\* lines 62-83: nx = 3*ny, grid, meshgen.generate(grid)
Generate ==
  /\ pc = "start"
  /\ mesh' = StructuredMesh(3 * ny, ny)
  /\ nodeIdx' = 0
  /\ pc' = "shear"
  /\ UNCHANGED <<ny, cellIdx, keep, bblo, bbhi, inside, rectMesh, box, lX, lY,
                 scale, runs, prevXY, impVars>>

\* lines 86-93, one iteration
ShearStep ==
  /\ pc = "shear"
  /\ nodeIdx < mesh.n
  /\ mesh' = SetXY(mesh, nodeIdx, ShearNode(mesh.xy[nodeIdx]))
  /\ nodeIdx' = nodeIdx + 1
  /\ UNCHANGED <<pc, ny, cellIdx, keep, bblo, bbhi, inside, rectMesh, box, lX,
                 lY, scale, runs, prevXY, impVars>>

\* lines 95-100: newHeight, length, keep, lo, hi
BeginSelect ==
  /\ pc = "shear"
  /\ nodeIdx = mesh.n
  /\ keep' = <<>>
  /\ bblo' = SelLo
  /\ bbhi' = SelHi(ny)
  /\ cellIdx' = 0
  /\ pc' = "select"
  /\ UNCHANGED <<ny, mesh, nodeIdx, inside, rectMesh, box, lX, lY, scale, runs,
                 prevXY, impVars>>

\* lines 101-105, one iteration
SelectStep ==
  /\ pc = "select"
  /\ cellIdx < mesh.nc
  /\ inside' = TriangleInBB(mesh, cellIdx, bblo, bbhi)
  /\ keep' = IF inside' THEN Append(keep, cellIdx) ELSE keep
  /\ cellIdx' = cellIdx + 1
  /\ UNCHANGED <<pc, ny, mesh, nodeIdx, bblo, bbhi, rectMesh, box, lX, lY,
                 scale, runs, prevXY, impVars>>

\* lines 107-112
ExtractStep ==
  /\ pc = "select"
  /\ cellIdx = mesh.nc
  /\ rectMesh' = AtlasExtractSubMeshMinimal(mesh, keep)
  /\ box' = InitBox
  /\ nodeIdx' = 0
  /\ pc' = "bbox"
  /\ UNCHANGED <<ny, mesh, cellIdx, keep, bblo, bbhi, inside, lX, lY, scale,
                 runs, prevXY, impVars>>

\* lines 113-120, one iteration
BBoxStep ==
  /\ pc = "bbox"
  /\ nodeIdx < rectMesh.n
  /\ box' = FoldBox(box, rectMesh.xy[nodeIdx])
  /\ nodeIdx' = nodeIdx + 1
  /\ UNCHANGED <<pc, ny, mesh, cellIdx, keep, bblo, bbhi, inside, rectMesh, lX,
                 lY, scale, runs, prevXY, impVars>>

\* lines 121-122
BBoxDone ==
  /\ pc = "bbox"
  /\ nodeIdx = rectMesh.n
  /\ lX' = Sub(box.xMax, box.xMin)
  /\ lY' = Sub(box.yMax, box.yMin)
  /\ nodeIdx' = 0
  /\ pc' = "recenter"
  /\ UNCHANGED <<ny, mesh, cellIdx, keep, bblo, bbhi, inside, rectMesh, box,
                 scale, runs, prevXY, impVars>>

\* lines 124-129, one iteration
RecenterStep ==
  /\ pc = "recenter"
  /\ nodeIdx < rectMesh.n
  /\ rectMesh' = SetXY(rectMesh, nodeIdx,
                       RecenterNode(rectMesh.xy[nodeIdx], box, lX, lY))
  /\ nodeIdx' = nodeIdx + 1
  /\ UNCHANGED <<pc, ny, mesh, cellIdx, keep, bblo, bbhi, inside, box, lX, lY,
                 scale, runs, prevXY, impVars>>

\* line 132
RecenterDone ==
  /\ pc = "recenter"
  /\ nodeIdx = rectMesh.n
  /\ scale' = ScaleFactor(lX, lY)
  /\ nodeIdx' = 0
  /\ pc' = "scale"
  /\ UNCHANGED <<ny, mesh, cellIdx, keep, bblo, bbhi, inside, rectMesh, box, lX,
                 lY, runs, prevXY, impVars>>

\* lines 133-138, one iteration
ScaleStep ==
  /\ pc = "scale"
  /\ nodeIdx < rectMesh.n
  /\ rectMesh' = SetXY(rectMesh, nodeIdx, ScaleNode(rectMesh.xy[nodeIdx], scale))
  /\ nodeIdx' = nodeIdx + 1
  /\ UNCHANGED <<pc, ny, mesh, cellIdx, keep, bblo, bbhi, inside, box, lX, lY,
                 scale, runs, prevXY, impVars>>

\* line 140
Return ==
  /\ pc = "scale"
  /\ nodeIdx = rectMesh.n
  /\ runs' = runs + 1
  /\ pc' = "done"
  /\ UNCHANGED <<ny, mesh, nodeIdx, cellIdx, keep, bblo, bbhi, inside, rectMesh,
                 box, lX, lY, scale, prevXY, impVars>>

\* the importer is not running
ImportIdle ==
  /\ ipc = "idle"
  /\ nbh = <<>>
  /\ build = "debug"
  /\ file = <<>>
  /\ imesh = <<>>
  /\ minimal = "none"
  /\ result = "none"
  /\ oob = FALSE

InitRect ==
  /\ pc = "start"
  /\ ny \in 2..MaxNy
  /\ mesh = EmptyMesh
  /\ nodeIdx = 0
  /\ cellIdx = 0
  /\ keep = <<>>
  /\ bblo = SelLo
  /\ bbhi = SelLo
  /\ inside = "none"
  /\ rectMesh = EmptyMesh
  /\ box = InitBox
  /\ lX = Num(0)
  /\ lY = Num(0)
  /\ scale = Num(0)
  /\ runs = 0
  /\ prevXY = <<>>
  /\ ImportIdle

NextRect ==
  \/ Generate
  \/ ShearStep
  \/ BeginSelect
  \/ SelectStep
  \/ ExtractStep
  \/ BBoxStep
  \/ BBoxDone
  \/ RecenterStep
  \/ RecenterDone
  \/ ScaleStep
  \/ Return

SpecRect == InitRect /\ [][NextRect]_vars

(***************************************************************************)
(* TriangleInBB as a function of its arguments: the inputs are drawn in    *)
(* the initial state, one action applies the function.                     *)
(***************************************************************************)
ShearMesh(m) == [m EXCEPT !.xy = [k \in 0..(m.n - 1) |-> ShearNode(m.xy[k])]]

ProbeLoX == {Num(0), Rat(1, 2)}
ProbeLoY == {NegDblMax, Num(0)}
ProbeHiX(nyy) == {Rat(3, 2), SelHi(nyy).x}
ProbeHiY == {DblMax, Div(Sqrt3, Num(2))}

InitBB ==
  /\ pc = "probe"
  /\ ny \in 2..MaxProbeNy
  /\ mesh \in {StructuredMesh(3 * ny, ny), ShearMesh(StructuredMesh(3 * ny, ny))}
  /\ cellIdx \in 0..(mesh.nc - 1)
  /\ bblo \in [x : ProbeLoX, y : ProbeLoY]
  /\ bbhi \in [x : ProbeHiX(ny), y : ProbeHiY]
  /\ nodeIdx = 0
  /\ keep = <<>>
  /\ inside = "none"
  /\ rectMesh = EmptyMesh
  /\ box = InitBox
  /\ lX = Num(0)
  /\ lY = Num(0)
  /\ scale = Num(0)
  /\ runs = 0
  /\ prevXY = <<>>
  /\ ImportIdle

ApplyTriangleInBB ==
  /\ pc = "probe"
  /\ inside' = TriangleInBB(mesh, cellIdx, bblo, bbhi)
  /\ pc' = "probed"
  /\ UNCHANGED <<ny, mesh, nodeIdx, cellIdx, keep, bblo, bbhi, rectMesh, box,
                 lX, lY, scale, runs, prevXY, impVars>>

NextBB == ApplyTriangleInBB

SpecBB == InitBB /\ [][NextBB]_vars

(***************************************************************************)
(* The bounding-box normalizer (lines 108-138) as a function of a node     *)
(* set: the node set is drawn in the initial state, the normalizer's       *)
(* actions run on it, and Rerun starts it a second time on its own output. *)
(***************************************************************************)
NormX == {Num(0), Rat(3, 2), Sqrt3}
NormY == {Num(-1), Num(0), Div(Sqrt3, Num(2))}

NodeSets ==
  UNION {[0..(k - 1) -> [x : NormX, y : NormY]] : k \in 2..MaxNormNodes}

InitNorm ==
  /\ pc = "bbox"
  /\ ny = 0
  /\ mesh = EmptyMesh
  /\ nodeIdx = 0
  /\ cellIdx = 0
  /\ keep = <<>>
  /\ bblo = SelLo
  /\ bbhi = SelLo
  /\ inside = "none"
  /\ \E xy \in NodeSets :
       /\ \E i, j \in DOMAIN xy : xy[i].y # xy[j].y
       /\ rectMesh = [EmptyMesh EXCEPT !.n = Cardinality(DOMAIN xy), !.xy = xy]
  /\ box = InitBox
  /\ lX = Num(0)
  /\ lY = Num(0)
  /\ scale = Num(0)
  /\ runs = 0
  /\ prevXY = <<>>
  /\ ImportIdle

Rerun ==
  /\ pc = "done"
  /\ runs = 1
  /\ prevXY' = rectMesh.xy
  /\ box' = InitBox
  /\ nodeIdx' = 0
  /\ pc' = "bbox"
  /\ UNCHANGED <<ny, mesh, cellIdx, keep, bblo, bbhi, inside, rectMesh, lX, lY,
                 scale, runs, impVars>>

NextNorm ==
  \/ BBoxStep
  \/ BBoxDone
  \/ RecenterStep
  \/ RecenterDone
  \/ ScaleStep
  \/ Return
  \/ Rerun

SpecNorm == InitNorm /\ [][NextNorm]_vars

(***************************************************************************)
(* Claims about AtlasMeshRect, TriangleInBB and the normalizer.            *)
(***************************************************************************)
MinOf(S) == CHOOSE p \in S : \A q \in S : ~Less(q, p)
MaxOf(S) == CHOOSE p \in S : \A q \in S : ~Less(p, q)
XsOf(m) == {m.xy[k].x : k \in 0..(m.n - 1)}
YsOf(m) == {m.xy[k].y : k \in 0..(m.n - 1)}
Dist2(p, q) ==
  Add(Mul(Sub(p.x, q.x), Sub(p.x, q.x)), Mul(Sub(p.y, q.y), Sub(p.y, q.y)))
Edges2(m, c) ==
  {Dist2(m.xy[m.cells[c][1]], m.xy[m.cells[c][2]]),
   Dist2(m.xy[m.cells[c][2]], m.xy[m.cells[c][3]]),
   Dist2(m.xy[m.cells[c][3]], m.xy[m.cells[c][1]])}

\* C1: the mesh AtlasMeshRect(ny) returns has node y-extent 180 and its
\* bounding box is centred at the origin on both axes.
C1_ExtentAndCentre ==
  pc = "done" =>
    /\ rectMesh.n > 0
    /\ Sub(MaxOf(YsOf(rectMesh)), MinOf(YsOf(rectMesh))) = Num(180)
    /\ Add(MaxOf(XsOf(rectMesh)), MinOf(XsOf(rectMesh))) = Num(0)
    /\ Add(MaxOf(YsOf(rectMesh)), MinOf(YsOf(rectMesh))) = Num(0)

\* AtlasMeshRect(3) has returned and the selection dropped some cells
C1_Witness == pc = "done" /\ ny = 4 /\ 0 < rectMesh.nc /\ rectMesh.nc < mesh.nc

\* C2 as stated: every triangle of the returned mesh is equilateral with
\* edge length 180/(ny-1).
C2_EdgeIs180OverRows ==
  pc = "done" =>
    \A c \in 0..(rectMesh.nc - 1) :
      Edges2(rectMesh, c) = {Rat(180 * 180, (ny - 1) * (ny - 1))}

\* C2 as amended: every triangle of the returned mesh is equilateral with
\* edge length 360/(sqrt(3)*(ny-1)), i.e. squared edge 43200/(ny-1)^2; it is
\* the triangle's height (one lattice row) that measures 180/(ny-1).
C2_Equilateral ==
  pc = "done" =>
    \A c \in 0..(rectMesh.nc - 1) :
      Edges2(rectMesh, c) = {Rat(43200, (ny - 1) * (ny - 1))}

\* AtlasMeshRect(3) has returned a mesh of several triangles
C2_Witness == pc = "done" /\ ny = 3 /\ rectMesh.nc >= 2

Leq(p, q) == p = q \/ Less(p, q)
OnOrOutside(p, lo, hi) ==
  Leq(p.x, lo.x) \/ Leq(hi.x, p.x) \/ Leq(p.y, lo.y) \/ Leq(hi.y, p.y)
InteriorVertices ==
  {k \in 1..3 : ~OnOrOutside(mesh.xy[mesh.cells[cellIdx][k]], bblo, bbhi)}

\* C7: TriangleInBB returns true iff at least one of the cell's 3 vertices
\* is strictly inside the box on both axes; a triangle whose vertices all lie
\* on or outside the boundary is rejected, one with exactly one strictly
\* interior vertex is accepted.
C7_AnyVertexStrictlyInside ==
  pc = "probed" =>
    /\ inside = (InteriorVertices # {})
    /\ (InteriorVertices = {} => inside = FALSE)
    /\ (Cardinality(InteriorVertices) = 1 => inside = TRUE)

\* a triangle accepted for its single interior vertex, another vertex of it
\* lying exactly on the low x edge of the box
C7_Witness ==
  /\ pc = "probed"
  /\ inside = TRUE
  /\ Cardinality(InteriorVertices) = 1
  /\ \E k \in 1..3 : mesh.xy[mesh.cells[cellIdx][k]].x = bblo.x

\* C8: run on a mesh it has already normalized, the normalizer computes a
\* re-centring offset of 0 on both axes and a scale factor of 1 and leaves
\* every node coordinate unchanged.
C8_NormalizerIdempotent ==
  /\ (runs = 1 /\ pc \in {"recenter", "scale"} =>
        /\ Add(box.xMin, Div(lX, Num(2))) = Num(0)
        /\ Add(box.yMin, Div(lY, Num(2))) = Num(0))
  /\ (runs = 1 /\ pc = "scale" => scale = Num(1))
  /\ (runs = 1 /\ pc # "done" => rectMesh.xy = prevXY)
  /\ (runs = 2 => scale = Num(1) /\ rectMesh.xy = prevXY)

\* the second run has finished on a mesh with a node strictly inside the
\* bounding box
C8_Witness ==
  /\ runs = 2
  /\ pc = "done"
  /\ \E k \in 0..(rectMesh.n - 1) :
       /\ rectMesh.xy[k].y \notin {Num(90), Num(-90)}
       /\ rectMesh.xy[k].x # MinOf(XsOf(rectMesh))
       /\ rectMesh.xy[k].x # MaxOf(XsOf(rectMesh))

(***************************************************************************)
(* The NetCDF importer, src/utils/AtlasFromNetcdf.cpp.                     *)
(*                                                                         *)
(* A file variable is [st, dims, data]: st is "missing" (getVar finds      *)
(* nothing), "present", or "ioerr" (present, but reading it throws         *)
(* NcException); dims are its dimension sizes; data its entries in file    *)
(* order.  Only the entries of vertex_of_cell are modelled; of every other *)
(* variable the model keeps the shape alone.  The file is revealed call by *)
(* call: `file` holds the variables the calls made so far ask for          *)
(* ("unread" otherwise), and of the five neighbor tables the one asked for *)
(* last.                                                                   *)
(*                                                                         *)
(* Outcomes of a call: "mesh", "absent" (empty optional), "abort" (a       *)
(* failed assert, builds without NDEBUG) and "fault" (undefined behaviour  *)
(* that takes the process down).  Undefined behaviour is a choice between  *)
(* "fault" and carrying on.                                                *)
(***************************************************************************)
MaxNodes == 2   \* vlon / vlat hold up to MaxNodes entries
MaxCells == 2   \* vertex_of_cell holds up to MaxCells cells
MaxEdges == 2   \* edge_index / elat hold up to MaxEdges entries
MaxRows == 3    \* a neighbor table holds up to MaxRows elements

\* line 42
DefaultPartition == 0
\* lines 222-226
VerticesPerEdge == 2
CellsPerEdge == 2
CellsPerNode == 6
EdgesPerNode == 6
EdgesPerCell == 3
\* line 122: if(vertexPerCell != 3)
VerticesPerCell == 3

Unread == [st |-> "unread", dims |-> <<>>, data |-> <<>>]
Missing == [st |-> "missing", dims |-> <<>>, data |-> <<>>]
Shape(st, dims) == [st |-> st, dims |-> dims, data |-> <<>>]

Prod(dims) ==
  IF Len(dims) = 0 THEN 1
  ELSE IF Len(dims) = 1 THEN dims[1]
  ELSE IF Len(dims) = 2 THEN dims[1] * dims[2]
  ELSE dims[1] * dims[2] * dims[3]

\* the file's candidates for a variable the schema declares 1-dimensional
Var1D(max) ==
  {Missing, Shape("ioerr", <<1>>)}
    \cup {Shape("present", <<n>>) : n \in 0..max}
    \cup {Shape("present", d) : d \in {<<0, 2>>, <<1, 2>>}}

\* the vertex indices a file may hold: 0 and MaxNodes+1 are never valid
VertexVals == 0..(MaxNodes + 1)

\* the entries of a vertex_of_cell of n cells: a table of valid 1-based
\* indices, or that table with one entry replaced by any of VertexVals
VertexData(n) ==
  LET base == [i \in 1..(VerticesPerCell * n) |-> ((i - 1) % MaxNodes) + 1]
  IN  {base} \cup {[base EXCEPT ![i] = v] : i \in 1..(VerticesPerCell * n),
                                            v \in VertexVals}

\* the file's candidates for vertex_of_cell
VarVertexOfCell ==
  {Missing, Shape("ioerr", <<VerticesPerCell, 1>>),
   Shape("present", <<VerticesPerCell>>),
   [st |-> "present", dims |-> <<VerticesPerCell, 1, 2>>,
    data |-> [i \in 1..(2 * VerticesPerCell) |-> 1]]}
    \cup {Shape("present", <<4, n>>) : n \in 0..MaxCells}
    \cup UNION {{[st |-> "present", dims |-> <<VerticesPerCell, n>>, data |-> d] :
                   d \in VertexData(n)} : n \in 0..MaxCells}

\* the file's candidates for a neighbor table of `expected` entries per element
VarTable(expected) ==
  {Missing, Shape("ioerr", <<expected, 1>>),
   Shape("present", <<expected>>), Shape("present", <<expected, 1, 2>>)}
    \cup {Shape("present", <<expected + 1, 1>>)}
    \cup {Shape("present", <<expected, n>>) : n \in 0..MaxRows}

\* lines 44-55.  getDim / getVar belong to the netCDF library: reading more
\* entries than the vector holds (a variable of 2 dimensions, NDEBUG) is a
\* write past the buffer.
LoadField(v, b) ==
  IF v.st = "missing" THEN {[out |-> "ok", size |-> 0]}
  ELSE IF Len(v.dims) # 1 /\ b = "debug" THEN {[out |-> "abort", size |-> 0]}
  ELSE IF v.st = "ioerr" THEN {[out |-> "throw", size |-> 0]}
  ELSE IF Prod(v.dims) > v.dims[1]
    THEN {[out |-> "fault", size |-> 0], [out |-> "ok", size |-> v.dims[1]]}
  ELSE {[out |-> "ok", size |-> v.dims[1]]}

\* lines 57-71.  On a variable of fewer than 2 dimensions getDim(1) throws
\* NcException (netCDF library); on one of 3 the read overruns the buffer.
Load2DField(v, b) ==
  LET none == [out |-> "ok", data |-> <<>>, stride |-> 0, elPerStride |-> 0]
      got == [out |-> "ok",
              data |-> IF Len(v.data) >= v.dims[1] * v.dims[2]
                         THEN SubSeq(v.data, 1, v.dims[1] * v.dims[2]) ELSE v.data,
              stride |-> v.dims[1], elPerStride |-> v.dims[2]]
  IN  IF v.st = "missing" THEN {none}
      ELSE IF Len(v.dims) # 2 /\ b = "debug" THEN {[none EXCEPT !.out = "abort"]}
      ELSE IF Len(v.dims) < 2 THEN {[none EXCEPT !.out = "throw"]}
      ELSE IF v.st = "ioerr" THEN {[none EXCEPT !.out = "throw"]}
      ELSE IF Prod(v.dims) > v.dims[1] * v.dims[2]
        THEN {[none EXCEPT !.out = "fault"], got}
      ELSE {got}

\* atlas::Mesh mesh; (line 178)
NewMesh ==
  [numNodes |-> 0, glb_idx_node |-> <<>>, remote_idx |-> <<>>, part |-> <<>>,
   ghost |-> <<>>, ncells |-> 0, node_connectivity |-> <<>>,
   glb_idx_cell |-> <<>>, cells_part |-> <<>>, numEdges |-> 0, tables |-> {}]

\* lines 85-115 (sequences are 1-based: element nodeIdx is at nodeIdx + 1);
\* the lon/lat values themselves are not modelled
FillNodes(m, numNodes) ==
  [m EXCEPT !.numNodes = numNodes,
            !.glb_idx_node = [i \in 1..numNodes |-> i - 1],
            !.remote_idx = [i \in 1..numNodes |-> i - 1],
            !.part = [i \in 1..numNodes |-> DefaultPartition],
            !.ghost = [i \in 1..numNodes |-> FALSE]]

\* lines 73-118
NodesFromNetCDF(m, vlon, vlat, b) ==
  UNION {
    IF lon.out # "ok" THEN {[out |-> lon.out, mesh |-> m]}
    ELSE UNION {
      IF lat.out # "ok" THEN {[out |-> lat.out, mesh |-> m]}
      ELSE IF lon.size = 0 \/ lat.size = 0 THEN {[out |-> "false", mesh |-> m]}
      ELSE IF lon.size # lat.size THEN {[out |-> "false", mesh |-> m]}
      ELSE {[out |-> "true", mesh |-> FillNodes(m, lat.size)]}
      : lat \in LoadField(vlat, b)}
    : lon \in LoadField(vlon, b)}

\* a plausible slip: the 1-based file index copied without the "- 1"
TriNodeOneBased(cellToVertex, ncells, k, c) ==
  cellToVertex[k * ncells + c + 1]

\* lines 136-138: cellToVertex[k * ncells + cellIdx] - 1
TriNode(cellToVertex, ncells, k, c) ==
  cellToVertex[k * ncells + c + 1] - 1

\* lines 128-142
FillCells(m, cellToVertex, ncells) ==
  [m EXCEPT !.ncells = ncells,
            !.node_connectivity =
               [i \in 1..ncells |-> <<TriNode(cellToVertex, ncells, 0, i - 1),
                                      TriNode(cellToVertex, ncells, 1, i - 1),
                                      TriNode(cellToVertex, ncells, 2, i - 1)>>],
            !.glb_idx_cell = [i \in 1..ncells |-> i - 1],
            !.cells_part = [i \in 1..ncells |-> DefaultPartition]]

\* lines 120-145: [cellToVertex, vertexPerCell, ncells] = Load2DField(...)
CellsFromNetCDF(m, voc, b) ==
  {IF f.out # "ok" THEN [out |-> f.out, mesh |-> m]
   ELSE IF f.stride # VerticesPerCell THEN [out |-> "false", mesh |-> m]
   ELSE [out |-> "true", mesh |-> FillCells(m, f.data, f.elPerStride)]
   : f \in Load2DField(voc, b)}

\* a plausible slip: a table that was not found passes the check
CardinalityOkOrAbsent(yPerX, yPerXExpected) ==
  yPerX = yPerXExpected \/ yPerX = 0

\* line 152: !(yPerX != yPerXExpected)
CardinalityOk(yPerX, yPerXExpected) == yPerX = yPerXExpected

\* lines 147-165 on a connectivity table that holds `rows` rows: rows
\* 0..numY-1 are written; a row index >= rows is outside the table (undefined
\* behaviour)
AddNeighborList(v, yPerXExpected, rows, b) ==
  UNION {
    IF f.out # "ok" THEN {[out |-> f.out, passed |-> FALSE, numY |-> 0, oob |-> FALSE]}
    ELSE IF ~CardinalityOk(f.stride, yPerXExpected)
      THEN {[out |-> "false", passed |-> FALSE, numY |-> 0, oob |-> FALSE]}
    ELSE IF f.elPerStride > rows
      THEN {[out |-> "fault", passed |-> TRUE, numY |-> f.elPerStride, oob |-> TRUE],
            [out |-> "true", passed |-> TRUE, numY |-> f.elPerStride, oob |-> TRUE]}
    ELSE {[out |-> "true", passed |-> TRUE, numY |-> f.elPerStride, oob |-> FALSE]}
    : f \in Load2DField(v, b)}

\* the five tables in the order of lines 232-265
TableName(k) ==
  <<"adjacent_cell_of_edge", "edge_vertices", "cells_of_vertex",
    "edges_of_vertex", "edge_of_cell">>[k]
NbhPerElem(k) ==
  <<CellsPerEdge, VerticesPerEdge, CellsPerNode, EdgesPerNode, EdgesPerCell>>[k]
\* mesh.edges().size(), mesh.nodes().size(), mesh.cells().size()
NumElements(m, k) ==
  IF k <= 2 THEN m.numEdges ELSE IF k <= 4 THEN m.numNodes ELSE m.ncells

\* rows the connectivity already holds when AllocNbhTable is called on it:
\* mesh.edges().add (line 220) gave edges().node_connectivity() one row per
\* edge; the other four connectivities are empty
RowsBefore(m, k) == IF k = 2 THEN m.numEdges ELSE 0

\* connectivity.add (line 172) appends numElements rows to those already there
TableSize(m, k) == RowsBefore(m, k) + NumElements(m, k)

\* lines 169-173
AllocNbhTable(m, k) ==
  [m EXCEPT !.tables = @ \cup {[name |-> TableName(k), rows |-> NumElements(m, k),
                                cols |-> NbhPerElem(k)]}]

\* a plausible slip: the "no edges" test dropped
NoEdgesFoundNever(numEdgesA, numEdgesB) == FALSE

\* line 211
NoEdgesFound(numEdgesA, numEdgesB) == numEdgesA = 0 /\ numEdgesB = 0

\* line 216
Max(a, b) == IF a > b THEN a ELSE b

\* what a callee's non-success makes of the call: a false return or a caught
\* NcException is an absent result (lines 182, 186, 190-193, 235..264, 270-273)
Ends(out) == IF out \in {"false", "throw"} THEN "absent" ELSE out

NoFile ==
  [opens |-> TRUE, vlon |-> Unread, vlat |-> Unread, vertex_of_cell |-> Unread,
   edge_index |-> Unread, elat |-> Unread, table |-> Unread]
NoCall == [k |-> 0, rows |-> 0, size |-> 0, passed |-> FALSE, numY |-> 0]

\* lines 177-179 and 190-193: opening the file may throw NcException
OpenMinimal ==
  /\ ipc = "start"
  /\ \E ok \in BOOLEAN :
       /\ file' = [file EXCEPT !.opens = ok]
       /\ minimal' = IF ok THEN minimal ELSE "absent"
       /\ ipc' = IF ok THEN "nodes" ELSE "minimal_ret"
  /\ UNCHANGED <<nbh, build, imesh, result, oob, rectVars>>

\* lines 181-183
NodesStep ==
  /\ ipc = "nodes"
  /\ \E vlon \in Var1D(MaxNodes), vlat \in Var1D(MaxNodes) :
       \E r \in NodesFromNetCDF(imesh, vlon, vlat, build) :
         /\ file' = [file EXCEPT !.vlon = vlon, !.vlat = vlat]
         /\ imesh' = r.mesh
         /\ minimal' = IF r.out = "true" THEN minimal ELSE Ends(r.out)
         /\ ipc' = IF r.out = "true" THEN "cells" ELSE "minimal_ret"
  /\ UNCHANGED <<nbh, build, result, oob, rectVars>>

\* lines 185-189
CellsStep ==
  /\ ipc = "cells"
  /\ \E voc \in VarVertexOfCell :
       \E r \in CellsFromNetCDF(imesh, voc, build) :
         /\ file' = [file EXCEPT !.vertex_of_cell = voc]
         /\ imesh' = r.mesh
         /\ minimal' = IF r.out = "true" THEN "mesh" ELSE Ends(r.out)
         /\ ipc' = "minimal_ret"
  /\ UNCHANGED <<nbh, build, result, oob, rectVars>>

\* lines 197-203
AfterMinimal ==
  /\ ipc = "minimal_ret"
  /\ result' = IF minimal = "mesh" THEN result ELSE minimal
  /\ ipc' = IF minimal = "mesh" THEN "open2" ELSE "done"
  /\ UNCHANGED <<nbh, build, file, imesh, minimal, oob, rectVars>>

\* lines 204 and 270-273
OpenComplete ==
  /\ ipc = "open2"
  /\ \E ok \in BOOLEAN :
       /\ result' = IF ok THEN result ELSE "absent"
       /\ ipc' = IF ok THEN "edges" ELSE "done"
  /\ UNCHANGED <<nbh, build, file, imesh, minimal, oob, rectVars>>

\* lines 206-220
EdgesStep ==
  /\ ipc = "edges"
  /\ \E ei \in Var1D(MaxEdges), el \in Var1D(MaxEdges) :
       \E a \in LoadField(ei, build), b \in LoadField(el, build) :
         /\ file' = [file EXCEPT !.edge_index = ei, !.elat = el]
         /\ IF a.out # "ok" THEN
              /\ result' = Ends(a.out) /\ ipc' = "done" /\ imesh' = imesh
            ELSE IF b.out # "ok" THEN
              /\ result' = Ends(b.out) /\ ipc' = "done" /\ imesh' = imesh
            ELSE IF NoEdgesFound(a.size, b.size) THEN
              /\ result' = "absent" /\ ipc' = "done" /\ imesh' = imesh
            ELSE
              /\ result' = result /\ ipc' = "nbh"
              /\ imesh' = [imesh EXCEPT !.numEdges = Max(a.size, b.size)]
  /\ UNCHANGED <<nbh, build, minimal, oob, rectVars>>

\* lines 232-236, 237-241, 246-250, 251-255, 261-265: AllocNbhTable, then
\* AddNeighborList on the next of the five tables
NbhStep ==
  /\ ipc = "nbh"
  /\ nbh.k < 5
  /\ LET k == nbh.k + 1 IN
       \E v \in VarTable(NbhPerElem(k)) :
         \E r \in AddNeighborList(v, NbhPerElem(k), TableSize(imesh, k), build) :
           /\ file' = [file EXCEPT !.table = v]
           /\ imesh' = AllocNbhTable(imesh, k)
           /\ nbh' = [k |-> k, rows |-> NumElements(imesh, k),
                      size |-> TableSize(imesh, k),
                      passed |-> r.passed, numY |-> r.numY]
           /\ oob' = (oob \/ r.oob)
           /\ result' = IF r.out = "true" THEN result ELSE Ends(r.out)
           /\ ipc' = IF r.out = "true" THEN "nbh" ELSE "done"
  /\ UNCHANGED <<build, minimal, rectVars>>

\* line 269
ReturnMesh ==
  /\ ipc = "nbh"
  /\ nbh.k = 5
  /\ result' = "mesh"
  /\ ipc' = "done"
  /\ UNCHANGED <<nbh, build, file, imesh, minimal, oob, rectVars>>

RectIdle ==
  /\ pc = "idle"
  /\ ny = 0
  /\ mesh = EmptyMesh
  /\ nodeIdx = 0
  /\ cellIdx = 0
  /\ keep = <<>>
  /\ bblo = SelLo
  /\ bbhi = SelLo
  /\ inside = "none"
  /\ rectMesh = EmptyMesh
  /\ box = InitBox
  /\ lX = Num(0)
  /\ lY = Num(0)
  /\ scale = Num(0)
  /\ runs = 0
  /\ prevXY = <<>>

Init ==
  /\ RectIdle
  /\ ipc = "start"
  /\ build \in {"debug", "ndebug"}
  /\ file = NoFile
  /\ imesh = NewMesh
  /\ nbh = NoCall
  /\ minimal = "none"
  /\ result = "none"
  /\ oob = FALSE

Next ==
  \/ OpenMinimal
  \/ NodesStep
  \/ CellsStep
  \/ AfterMinimal
  \/ OpenComplete
  \/ EdgesStep
  \/ NbhStep
  \/ ReturnMesh

Spec == Init /\ [][Next]_vars

(***************************************************************************)
(* Claims about the importer.                                              *)
(***************************************************************************)
\* the number of entries of a file variable (0 when it is not there)
Entries(v) == IF v.st \in {"missing", "unread"} THEN 0 ELSE Prod(v.dims)
\* the size of a variable's first dimension
PerElement(v) == IF Len(v.dims) = 0 THEN 0 ELSE v.dims[1]
\* every variable read so far could be read
Readable ==
  /\ file.opens
  /\ \A v \in {file.vlon, file.vlat, file.vertex_of_cell} : v.st # "ioerr"
NodeVarsBad ==
  \/ file.vlon.st = "missing" \/ file.vlat.st = "missing"
  \/ Entries(file.vlon) = 0 \/ Entries(file.vlat) = 0
  \/ Entries(file.vlon) # Entries(file.vlat)
NotTriangles ==
  file.vertex_of_cell.st = "missing" \/ PerElement(file.vertex_of_cell) # 3

\* C3: on a readable file AtlasMeshFromNetCDFMinimal returns absent when
\* vlon or vlat is missing, empty or of another length than the other, or
\* when vertex_of_cell does not have 3 entries per cell; in every other case
\* it returns a mesh with one node per vlon/vlat entry and one triangle per
\* cell.
C3_MinimalContract ==
  Readable /\ minimal # "none" =>
    IF NodeVarsBad THEN minimal = "absent"
    ELSE IF file.vertex_of_cell.st # "unread" /\ NotTriangles THEN minimal = "absent"
    ELSE /\ minimal = "mesh"
         /\ imesh.numNodes = Entries(file.vlon)
         /\ imesh.ncells * 3 = Entries(file.vertex_of_cell)

NoEdgeVar(v) == v.st = "missing" \/ (v.st = "present" /\ v.dims = <<0>>)
NoEdgeData == NoEdgeVar(file.edge_index) /\ NoEdgeVar(file.elat)

\* C4: when AtlasMeshFromNetCDFMinimal succeeds on a file without edge data
\* (edge_index and elat each not found, or of length 0),
\* AtlasMeshFromNetCDFComplete returns absent; and when Minimal returns
\* absent, Complete returns absent too.
C4_NoEdgeDataGivesAbsent ==
  ipc = "done" =>
    /\ (minimal = "mesh" /\ NoEdgeData => result = "absent")
    /\ (minimal = "absent" => result = "absent")

\* Minimal succeeded, edge_index is not in the file, elat is empty, and
\* Complete returned absent
C4_Witness ==
  /\ ipc = "done"
  /\ minimal = "mesh"
  /\ file.edge_index.st = "missing"
  /\ file.elat = Shape("present", <<0>>)
  /\ result = "absent"

\* C5 as stated: a neighbor table that is not found is "feature not
\* present", not an error: reading it does not make the call return absent.
C5_MissingTableTolerated ==
  nbh.k > 0 /\ file.table.st = "missing" => result # "absent"

\* C5 as amended: a neighbor table that is not found fails the cardinality
\* check of AddNeighborList (0 entries per element instead of the expected
\* number) and AtlasMeshFromNetCDFComplete returns absent at once.
C5_MissingTableGivesAbsent ==
  nbh.k > 0 /\ file.table.st = "missing" =>
    ~nbh.passed /\ result = "absent" /\ ipc = "done"

\* the file has edges, its first two neighbor tables were filled, and
\* cells_of_vertex is not found
C5_Witness ==
  /\ nbh.k = 3
  /\ imesh.numEdges > 0
  /\ file.table.st = "missing"
  /\ result = "absent"

\* C6: both importers end with a mesh or an absent result; no abort and no
\* fault reaches the caller.
C6_NoFaultReachesCaller ==
  /\ minimal \in {"none", "mesh", "absent"}
  /\ result \in {"none", "mesh", "absent"}

NodeRefs ==
  {<<c, k>> : c \in 1..imesh.ncells, k \in 1..3}
DenseAndSinglePartition ==
  /\ imesh.glb_idx_node = [i \in 1..imesh.numNodes |-> i - 1]
  /\ imesh.glb_idx_cell = [i \in 1..imesh.ncells |-> i - 1]
  /\ \A i \in 1..imesh.numNodes : imesh.part[i] = 0
  /\ \A i \in 1..imesh.ncells : imesh.cells_part[i] = 0

\* C9 as stated: in every returned mesh each cell's node references are
\* valid node indices, the global indices are dense from 0 and every node
\* and cell has partition 0.
C9_ValidNodeRefs ==
  minimal = "mesh" =>
    /\ \A r \in NodeRefs :
         imesh.node_connectivity[r[1]][r[2]] \in 0..(imesh.numNodes - 1)
    /\ DenseAndSinglePartition

\* C9 as amended: in every returned mesh the global indices are dense from
\* 0 and every node and cell has partition 0; each node reference of a cell
\* is the file's vertex_of_cell entry (column-major) minus 1, unchecked, so
\* it is a valid node index exactly when that entry lies in 1..numNodes.
C9_NodeRefsAreFileEntriesMinusOne ==
  /\ (result = "mesh" => minimal = "mesh")
  /\ (minimal = "mesh" =>
        /\ DenseAndSinglePartition
        /\ \A r \in NodeRefs :
             LET entry == file.vertex_of_cell.data[(r[2] - 1) * imesh.ncells + r[1]]
                 ref == imesh.node_connectivity[r[1]][r[2]]
             IN  /\ ref = entry - 1
                 /\ (ref \in 0..(imesh.numNodes - 1)) = (entry \in 1..imesh.numNodes))

\* Complete returned a mesh of two cells, one of whose node references is -1
C9_Witness ==
  /\ result = "mesh"
  /\ imesh.ncells = 2
  /\ \E r \in NodeRefs : imesh.node_connectivity[r[1]][r[2]] = -1

\* C10: every row AddNeighborList writes lies inside the table AllocNbhTable
\* allocated: once the cardinality check has passed, the number of elements
\* read from the file does not exceed the number of rows the table holds.
C10_RowsWithinTable ==
  nbh.passed => nbh.numY <= nbh.size

====
